---- MODULE Spec2Model ----
(***************************************************************************)
(* Quotient Hash Table filters of qht-rs: QHTc (QuotientHashTable), dQHTc  *)
(* (DQuotientHashTable) and dqQHTc (DQQuotientHashTable).                  *)
(*                                                                         *)
(* One filter instance is modelled.  Its fields are the variables n_cells, *)
(* n_buckets, fingerprint_size, pow_fingerprint_size, qht (the dense bit   *)
(* set, one entry per bit) and rng.  `variant' says which of the three     *)
(* structs the instance is.  The process-wide hash function and the build  *)
(* profile (overflow checks on or off) are fixed at Init.  `last', `since' *)
(* and `safe' are history variables: they record the last call and what    *)
(* happened to each element since it was inserted, and no operation reads  *)
(* them.  `arrived' and `recent' are history variables of dqQHTc: the      *)
(* fingerprints that were inserted into each cell.                         *)
(***************************************************************************)
EXTENDS Integers, Sequences, FiniteSets, TLC

VARIABLES
    phase,                 \* "start" | "ready" | "panicked" | "hung"
    variant,               \* which struct: "QHTc" | "dQHTc" | "dqQHTc"
    n_cells,
    n_buckets,
    fingerprint_size,
    pow_fingerprint_size,
    qht,                   \* the bit store: [0 .. len-1 -> {0, 1}]
    rng,                   \* state of the filter's StdRng
    hash_key,              \* selects the process-wide hash function
    overflow_checks,       \* TRUE: arithmetic overflow panics; FALSE: it wraps
    last,                  \* history: the last call and what it observed
    since,                 \* history: for each inserted e, inserts into e's cell since insert(e)
    safe,                  \* history: elements inserted and not written over
    arrived,               \* history (dqQHTc): per cell, the last n_buckets fingerprints inserted
    recent                 \* history (dqQHTc): per cell, the last n_buckets different fingerprints inserted

vars == <<phase, variant, n_cells, n_buckets, fingerprint_size,
          pow_fingerprint_size, qht, rng, hash_key, overflow_checks,
          last, since, safe, arrived, recent>>

filter_fields == <<n_cells, n_buckets, fingerprint_size, pow_fingerprint_size, qht, rng>>

----------------------------------------------------------------------------
(* Bounds of the model *)

\* largest element value: stands for u64::MAX, the value whose increment overflows
MaxValue == 2
\* hash outputs are 0 .. HashRange-1
HashRange == 7
\* usize is 0 .. UsizeMax
UsizeMax == 31
\* largest memory_size and n_buckets passed to new() when the filter is then used
MaxMem == 6
MaxB == 3
\* number of states of the random number generator
RngStates == 2

(* Program constants *)
FINGERPRINT_SIZE_LIMIT == 8

Variants == {"QHTc", "dQHTc", "dqQHTc"}
Values == 0 .. MaxValue

----------------------------------------------------------------------------
(* Arithmetic *)

RECURSIVE pow2(_)
pow2(n) == IF n = 0 THEN 1 ELSE 2 * pow2(n - 1)

\* usize multiplication: [ok |-> FALSE] is the overflow panic of a checked build
usize_mul(a, b) ==
    IF a * b > UsizeMax
    THEN [ok |-> ~overflow_checks, val |-> (a * b) % (UsizeMax + 1)]
    ELSE [ok |-> TRUE, val |-> a * b]

----------------------------------------------------------------------------
(* Element::get_hash: DefaultHasher over (value, seed).  The hasher is a    *)
(* fixed function of its input for the whole run; the model takes it from   *)
(* the family x |-> (hash_key * x) mod HashRange, applied to the input      *)
(* (value, seed) written as the number 2*value + seed.                      *)

HashKeys == 1 .. HashRange - 1

get_hash(value, seed) ==
    (hash_key * (2 * value + seed)) % HashRange

----------------------------------------------------------------------------
(* The bit store (DenseBitSetExtended): a bit buffer read and written at    *)
(* arbitrary bit offsets, least significant bit first.                      *)

with_capacity(n) == [i \in 0 .. n - 1 |-> 0]

bitstore_in_range(bits, offset, width) ==
    offset + width <= Cardinality(DOMAIN bits)

RECURSIVE extract_from(_, _, _, _)
extract_from(bits, offset, width, i) ==
    IF i = width THEN 0
    ELSE bits[offset + i] * pow2(i) + extract_from(bits, offset, width, i + 1)

extract_u64(bits, offset, width) == extract_from(bits, offset, width, 0)

insert_u64(bits, value, offset, width) ==
    [i \in DOMAIN bits |->
        IF offset <= i /\ i < offset + width
        THEN (value \div pow2(i - offset)) % 2
        ELSE bits[i]]

----------------------------------------------------------------------------
(* Helpers shared by the three structs.  They read the fields n_buckets,    *)
(* fingerprint_size, pow_fingerprint_size and n_cells of the instance; the  *)
(* bit store is a parameter so that an insert can thread its writes.        *)

\* bucket_offset with the cell stride n_buckets left out
bucket_offset_no_stride(address, bucket_number) ==
    ((address + bucket_number) * fingerprint_size) % (UsizeMax + 1)

\* a usize expression: it wraps where the build has let an overflowing filter be built
bucket_offset(address, bucket_number) ==
    ((address * n_buckets + bucket_number) * fingerprint_size) % (UsizeMax + 1)

get_fingerprint_from_bucket(bits, address, bucket_number) ==
    extract_u64(bits, bucket_offset(address, bucket_number), fingerprint_size)

\* insert_fingerprint_in_bucket with an offset counted in buckets, not in bits
insert_fingerprint_in_bucket_bucket_offset(bits, address, bucket_number, fingerprint) ==
    insert_u64(bits, fingerprint, address * n_buckets + bucket_number, fingerprint_size)

\* insert_fingerprint_in_bucket with the cell stride n_buckets left out of the offset
insert_fingerprint_in_bucket_no_stride(bits, address, bucket_number, fingerprint) ==
    insert_u64(bits, fingerprint, (address + bucket_number) * fingerprint_size, fingerprint_size)

insert_fingerprint_in_bucket(bits, address, bucket_number, fingerprint) ==
    insert_u64(bits, fingerprint, bucket_offset(address, bucket_number), fingerprint_size)

\* in_cell scanning the buckets of every cell
in_cell_any_cell(bits, address, fingerprint) ==
    \E a \in 0 .. n_cells - 1, idx \in 0 .. n_buckets - 1 :
        get_fingerprint_from_bucket(bits, a, idx) = fingerprint

\* in_cell with the scan stopping one bucket early
in_cell_skip_last(bits, address, fingerprint) ==
    \E idx \in 0 .. n_buckets - 2 :
        get_fingerprint_from_bucket(bits, address, idx) = fingerprint

in_cell(bits, address, fingerprint) ==
    \E idx \in 0 .. n_buckets - 1 :
        get_fingerprint_from_bucket(bits, address, idx) = fingerprint

\* the ascending scan of insert_empty from bucket idx on; bucket is the index written
RECURSIVE insert_empty_scan(_, _, _, _)
insert_empty_scan(bits, address, fingerprint, idx) ==
    IF idx >= n_buckets
    THEN [found |-> FALSE, qht |-> bits, bucket |-> n_buckets]
    ELSE IF get_fingerprint_from_bucket(bits, address, idx) = 0
         THEN [found |-> TRUE,
               qht |-> insert_fingerprint_in_bucket(bits, address, idx, fingerprint),
               bucket |-> idx]
         ELSE insert_empty_scan(bits, address, fingerprint, idx + 1)

\* insert_empty taking the highest-indexed empty bucket
insert_empty_highest(bits, address, fingerprint) ==
    LET empty == {b \in 0 .. n_buckets - 1 :
                     get_fingerprint_from_bucket(bits, address, b) = 0}
    IN  IF empty = {}
        THEN [found |-> FALSE, qht |-> bits, bucket |-> n_buckets]
        ELSE LET k == CHOOSE b \in empty : \A c \in empty : c <= b
             IN  [found |-> TRUE,
                  qht |-> insert_fingerprint_in_bucket(bits, address, k, fingerprint),
                  bucket |-> k]

\* insert_empty writing bucket 0 instead of the empty bucket it found
insert_empty_first_bucket(bits, address, fingerprint) ==
    LET r == insert_empty_scan(bits, address, fingerprint, 0)
    IN  IF r.found
        THEN [found |-> TRUE,
              qht |-> insert_fingerprint_in_bucket(bits, address, 0, fingerprint),
              bucket |-> 0]
        ELSE r

insert_empty(bits, address, fingerprint) ==
    insert_empty_scan(bits, address, fingerprint, 0)

\* the loop of get_fingerprint on the copy f of the element; `turns' counts the
\* iterations left before the loop has been through every value of the type
RECURSIVE fingerprint_loop(_, _)
fingerprint_loop(value, turns) ==
    LET v == get_hash(value, 2)
        fingerprint == v % pow_fingerprint_size
    IN  IF value = MaxValue /\ overflow_checks
        THEN [kind |-> "panic", fp |-> 0]
        ELSE IF fingerprint # 0
             THEN [kind |-> "ok", fp |-> fingerprint]
             ELSE IF turns = 0
                  THEN [kind |-> "hang", fp |-> 0]
                  ELSE fingerprint_loop((value + 1) % (MaxValue + 1), turns - 1)

\* get_fingerprint without the reduction modulo pow_fingerprint_size
get_fingerprint_unreduced(e) ==
    IF e = MaxValue /\ overflow_checks
    THEN [kind |-> "panic", fp |-> 0]
    ELSE [kind |-> "ok", fp |-> get_hash(e, 2)]

\* get_fingerprint without the loop: a zero fingerprint is returned as it is
get_fingerprint_once(e) ==
    IF e = MaxValue /\ overflow_checks
    THEN [kind |-> "panic", fp |-> 0]
    ELSE [kind |-> "ok", fp |-> get_hash(e, 2) % pow_fingerprint_size]

get_fingerprint(e) == fingerprint_loop(e, MaxValue)

get_address(e) == get_hash(e, 1) % n_cells

\* lookup in the bit store `bits': what lookup(e) returns once get_fingerprint has
lookup_in(bits, e) == in_cell(bits, get_address(e), get_fingerprint(e).fp)

lookup(e) == lookup_in(qht, e)

----------------------------------------------------------------------------
(* Constructors.  The result is [ok, n_cells, pow, qht]; ok = FALSE is a    *)
(* panic.  n_buckets * fingerprint_size and the capacity are usize products.*)

construction_panics == [ok |-> FALSE, n_cells |-> 0, pow |-> 0, qht |-> with_capacity(0)]

\* the capacity n_cells * n_buckets * fingerprint_size handed to with_capacity
capacity(cells, buckets, fsize) ==
    LET cb == usize_mul(cells, buckets)
        cbf == usize_mul(cb.val, fsize)
    IN  [ok |-> cb.ok /\ cbf.ok, val |-> cbf.val]

\* QuotientHashTable::new and DQuotientHashTable::new (the same code)
QuotientHashTable_new(memory_size, buckets, fsize) ==
    IF fsize > FINGERPRINT_SIZE_LIMIT \/ fsize = 0 THEN construction_panics
    ELSE IF buckets = 0 THEN construction_panics
    ELSE LET bf == usize_mul(buckets, fsize)
         IN  IF ~bf.ok \/ bf.val = 0 THEN construction_panics
             ELSE LET cells == memory_size \div bf.val
                      cap == capacity(cells, buckets, fsize)
                  IN  IF cells = 0 THEN construction_panics
                      ELSE IF ~cap.ok THEN construction_panics
                      ELSE [ok |-> TRUE, n_cells |-> cells, pow |-> pow2(fsize),
                            qht |-> with_capacity(cap.val)]

\* DQQuotientHashTable::new: the bit store is allocated before the n_cells check
DQQuotientHashTable_new(memory_size, buckets, fsize) ==
    IF fsize > FINGERPRINT_SIZE_LIMIT \/ fsize = 0 THEN construction_panics
    ELSE IF buckets = 0 THEN construction_panics
    ELSE LET bf == usize_mul(buckets, fsize)
         IN  IF ~bf.ok \/ bf.val = 0 THEN construction_panics
             ELSE LET cells == memory_size \div bf.val
                      cap == capacity(cells, buckets, fsize)
                  IN  IF ~cap.ok THEN construction_panics
                      ELSE IF cells = 0 THEN construction_panics
                      ELSE [ok |-> TRUE, n_cells |-> cells, pow |-> pow2(fsize),
                            qht |-> with_capacity(cap.val)]

new(v, memory_size, buckets, fsize) ==
    IF v = "dqQHTc"
    THEN DQQuotientHashTable_new(memory_size, buckets, fsize)
    ELSE QuotientHashTable_new(memory_size, buckets, fsize)

----------------------------------------------------------------------------
(* insert of each struct, from the current state.  `bucket' is what          *)
(* get_random_bucket returns if it is called.  The result is                 *)
(* [ret, qht, drew, bucket]: the value returned, the bit store after the     *)
(* call, whether the generator was used, and the bucket written (n_buckets   *)
(* when nothing was written).                                                *)

\* gen_range with an inclusive upper end
get_random_bucket_inclusive == 0 .. n_buckets

\* the values gen_range(0, n_buckets) can return, and the generator after a draw
get_random_bucket == 0 .. n_buckets - 1
rng_after_draw == (rng + 1) % RngStates

\* QHTc insert without the early return on a fingerprint that is present
QuotientHashTable_insert_no_early_return(e, bucket) ==
    LET fingerprint == get_fingerprint(e).fp
        address == get_address(e)
        r == insert_empty(qht, address, fingerprint)
    IN  IF ~r.found
        THEN [ret |-> FALSE,
              qht |-> insert_fingerprint_in_bucket(qht, address, bucket, fingerprint),
              drew |-> TRUE, bucket |-> bucket]
        ELSE [ret |-> FALSE, qht |-> r.qht, drew |-> FALSE, bucket |-> r.bucket]

\* QHTc insert that writes nothing when the cell has no empty bucket
QuotientHashTable_insert_no_evict(e, bucket) ==
    LET fingerprint == get_fingerprint(e).fp
        address == get_address(e)
    IN  IF in_cell(qht, address, fingerprint)
        THEN [ret |-> TRUE, qht |-> qht, drew |-> FALSE, bucket |-> n_buckets]
        ELSE LET r == insert_empty(qht, address, fingerprint)
             IN  IF ~r.found
                 THEN [ret |-> FALSE, qht |-> qht, drew |-> FALSE, bucket |-> n_buckets]
                 ELSE [ret |-> FALSE, qht |-> r.qht, drew |-> FALSE, bucket |-> r.bucket]

\* QHTc insert that writes even when the fingerprint is present
QuotientHashTable_insert_always_writes(e, bucket) ==
    LET fingerprint == get_fingerprint(e).fp
        address == get_address(e)
        detected == in_cell(qht, address, fingerprint)
        r == insert_empty(qht, address, fingerprint)
    IN  IF ~r.found
        THEN [ret |-> detected,
              qht |-> insert_fingerprint_in_bucket(qht, address, bucket, fingerprint),
              drew |-> TRUE, bucket |-> bucket]
        ELSE [ret |-> detected, qht |-> r.qht, drew |-> FALSE, bucket |-> r.bucket]

QuotientHashTable_insert(e, bucket) ==
    LET fingerprint == get_fingerprint(e).fp
        address == get_address(e)
    IN  IF in_cell(qht, address, fingerprint)
        THEN [ret |-> TRUE, qht |-> qht, drew |-> FALSE, bucket |-> n_buckets]
        ELSE LET r == insert_empty(qht, address, fingerprint)
             IN  IF ~r.found
                 THEN [ret |-> FALSE,
                       qht |-> insert_fingerprint_in_bucket(qht, address, bucket, fingerprint),
                       drew |-> TRUE, bucket |-> bucket]
                 ELSE [ret |-> FALSE, qht |-> r.qht, drew |-> FALSE, bucket |-> r.bucket]

\* dQHTc insert that writes only when the fingerprint is absent
DQuotientHashTable_insert_if_absent(e, bucket) ==
    LET fingerprint == get_fingerprint(e).fp
        address == get_address(e)
        detected == in_cell(qht, address, fingerprint)
        r == insert_empty(qht, address, fingerprint)
    IN  IF detected
        THEN [ret |-> TRUE, qht |-> qht, drew |-> FALSE, bucket |-> n_buckets]
        ELSE IF ~r.found
             THEN [ret |-> detected,
                   qht |-> insert_fingerprint_in_bucket(qht, address, bucket, fingerprint),
                   drew |-> TRUE, bucket |-> bucket]
             ELSE [ret |-> detected, qht |-> r.qht, drew |-> FALSE, bucket |-> r.bucket]

\* dQHTc insert that takes the bucket to overwrite from a hash of the element
DQuotientHashTable_insert_bucket_from_element(e, bucket) ==
    LET fingerprint == get_fingerprint(e).fp
        address == get_address(e)
        detected == in_cell(qht, address, fingerprint)
        r == insert_empty(qht, address, fingerprint)
    IN  IF ~r.found
        THEN [ret |-> detected,
              qht |-> insert_fingerprint_in_bucket(qht, address, get_hash(e, 3) % n_buckets,
                                                   fingerprint),
              drew |-> TRUE, bucket |-> get_hash(e, 3) % n_buckets]
        ELSE [ret |-> detected, qht |-> r.qht, drew |-> FALSE, bucket |-> r.bucket]

\* dQHTc insert that returns whether the fingerprint was newly stored
DQuotientHashTable_insert_returns_written(e, bucket) ==
    LET fingerprint == get_fingerprint(e).fp
        address == get_address(e)
        detected == in_cell(qht, address, fingerprint)
        r == insert_empty(qht, address, fingerprint)
    IN  IF ~r.found
        THEN [ret |-> ~detected,
              qht |-> insert_fingerprint_in_bucket(qht, address, bucket, fingerprint),
              drew |-> TRUE, bucket |-> bucket]
        ELSE [ret |-> ~detected, qht |-> r.qht, drew |-> FALSE, bucket |-> r.bucket]

\* dQHTc insert that always writes the randomly chosen bucket
DQuotientHashTable_insert_random_always(e, bucket) ==
    LET fingerprint == get_fingerprint(e).fp
        address == get_address(e)
        detected == in_cell(qht, address, fingerprint)
    IN  [ret |-> detected,
         qht |-> insert_fingerprint_in_bucket(qht, address, bucket, fingerprint),
         drew |-> TRUE, bucket |-> bucket]

DQuotientHashTable_insert(e, bucket) ==
    LET fingerprint == get_fingerprint(e).fp
        address == get_address(e)
        detected == in_cell(qht, address, fingerprint)
        r == insert_empty(qht, address, fingerprint)
    IN  IF ~r.found
        THEN [ret |-> detected,
              qht |-> insert_fingerprint_in_bucket(qht, address, bucket, fingerprint),
              drew |-> TRUE, bucket |-> bucket]
        ELSE [ret |-> detected, qht |-> r.qht, drew |-> FALSE, bucket |-> r.bucket]

\* the loop of insert_fingerprint_in_last_bucket run from the last bucket down
RECURSIVE shift_down(_, _, _)
shift_down(bits, address, prev) ==
    IF prev < 0 THEN bits
    ELSE LET fg == get_fingerprint_from_bucket(bits, address, prev + 1)
         IN  shift_down(insert_fingerprint_in_bucket(bits, address, prev, fg), address, prev - 1)

shift_from_descending(bits, address, prev) ==
    shift_down(bits, address, n_buckets - 2)

\* the loop of insert_fingerprint_in_last_bucket from prev on
RECURSIVE shift_from(_, _, _)
shift_from(bits, address, prev) ==
    IF prev >= n_buckets - 1 THEN bits
    ELSE LET idx == prev + 1
             fg == get_fingerprint_from_bucket(bits, address, idx)
         IN  shift_from(insert_fingerprint_in_bucket(bits, address, prev, fg), address, prev + 1)

\* insert_fingerprint_in_last_bucket writing the new fingerprint into bucket 0
insert_fingerprint_in_first_bucket(bits, address, fingerprint) ==
    insert_fingerprint_in_bucket(shift_from(bits, address, 0), address, 0, fingerprint)

\* insert_fingerprint_in_last_bucket without the shift
insert_fingerprint_in_last_bucket_no_shift(bits, address, fingerprint) ==
    insert_fingerprint_in_bucket(bits, address, n_buckets - 1, fingerprint)

insert_fingerprint_in_last_bucket(bits, address, fingerprint) ==
    LET last_bucket == n_buckets - 1
    IN  insert_fingerprint_in_bucket(shift_from(bits, address, 0), address, last_bucket, fingerprint)

\* dqQHTc insert that fills an empty bucket or else replaces a random bucket
DQQuotientHashTable_insert_random_bucket(e) ==
    LET fingerprint == get_fingerprint(e).fp
        address == get_address(e)
        detected == in_cell(qht, address, fingerprint)
        r == insert_empty(qht, address, fingerprint)
        bucket == rng % n_buckets
    IN  IF ~r.found
        THEN [ret |-> detected,
              qht |-> insert_fingerprint_in_bucket(qht, address, bucket, fingerprint),
              drew |-> TRUE, bucket |-> bucket]
        ELSE [ret |-> detected, qht |-> r.qht, drew |-> FALSE, bucket |-> r.bucket]

\* dqQHTc insert that leaves the cell alone when the fingerprint is present
DQQuotientHashTable_insert_if_absent(e) ==
    LET fingerprint == get_fingerprint(e).fp
        address == get_address(e)
        detected == in_cell(qht, address, fingerprint)
    IN  [ret |-> detected,
         qht |-> IF detected THEN qht
                 ELSE insert_fingerprint_in_last_bucket(qht, address, fingerprint),
         drew |-> FALSE, bucket |-> n_buckets - 1]

\* dqQHTc insert that looks the fingerprint up after writing it
DQQuotientHashTable_insert_detect_after(e) ==
    LET fingerprint == get_fingerprint(e).fp
        address == get_address(e)
        written == insert_fingerprint_in_last_bucket(qht, address, fingerprint)
    IN  [ret |-> in_cell(written, address, fingerprint),
         qht |-> written,
         drew |-> FALSE, bucket |-> n_buckets - 1]

DQQuotientHashTable_insert(e) ==
    LET fingerprint == get_fingerprint(e).fp
        address == get_address(e)
        detected == in_cell(qht, address, fingerprint)
    IN  [ret |-> detected,
         qht |-> insert_fingerprint_in_last_bucket(qht, address, fingerprint),
         drew |-> FALSE, bucket |-> n_buckets - 1]

----------------------------------------------------------------------------
(* History records *)

no_call == [op |-> "none", e |-> 0, args |-> <<0, 0, 0>>, ret |-> FALSE,
            detected |-> FALSE, was_full |-> FALSE, was_empty |-> FALSE,
            repeat |-> FALSE, count_before |-> 0, bucket |-> 0, evicted |-> 0,
            changed |-> FALSE, drew |-> FALSE]

cell_count(bits, address, fingerprint) ==
    Cardinality({idx \in 0 .. n_buckets - 1 :
                    get_fingerprint_from_bucket(bits, address, idx) = fingerprint})

cell_full(bits, address) ==
    \A idx \in 0 .. n_buckets - 1 : get_fingerprint_from_bucket(bits, address, idx) # 0

all_zero(bits) == \A i \in DOMAIN bits : bits[i] = 0

\* what an insert(e) that returned r observed in the state it was called in
insert_call(e, r) ==
    LET fingerprint == get_fingerprint(e).fp
        address == get_address(e)
    IN  [no_call EXCEPT
            !.op = "insert", !.e = e, !.ret = r.ret,
            !.detected = in_cell(qht, address, fingerprint),
            !.was_full = cell_full(qht, address),
            !.was_empty = all_zero(qht),
            !.repeat = (e \in DOMAIN since /\ since[e] = 0),
            !.count_before = cell_count(qht, address, fingerprint),
            !.bucket = r.bucket,
            !.evicted = IF r.bucket < n_buckets
                        THEN get_fingerprint_from_bucket(qht, address, r.bucket)
                        ELSE 0,
            !.changed = (r.qht # qht),
            !.drew = r.drew]

\* inserts into the cell of each inserted element since it was last inserted,
\* counted up to n_buckets in dqQHTc and up to 1 in the other two
since_limit == IF variant = "dqQHTc" THEN n_buckets ELSE 1

since_after(e) ==
    [x \in DOMAIN since \cup {e} |->
        IF x = e THEN 0
        ELSE IF get_address(x) = get_address(e) /\ since[x] < since_limit
             THEN since[x] + 1
             ELSE since[x]]

\* the elements inserted whose cell has since seen only inserts that found an
\* empty bucket or (QHTc) found their fingerprint present
safe_after(e, r) ==
    IF variant = "dqQHTc" THEN safe
    ELSE LET benign == (r.bucket < n_buckets /\ ~r.drew) \/ (variant = "QHTc" /\ r.bucket = n_buckets)
         IN  {e} \cup {x \in safe : get_address(x) # get_address(e) \/ benign}

\* the last n entries of the sequence s
keep_last(s, n) ==
    IF Len(s) <= n THEN s ELSE SubSeq(s, Len(s) - n + 1, Len(s))

\* the fingerprints inserted into each cell of a dqQHTc filter, oldest first,
\* repetitions counted; the last n_buckets of them are kept
arrived_after(e) ==
    IF variant # "dqQHTc" THEN arrived
    ELSE [arrived EXCEPT ![get_address(e)] =
             keep_last(Append(@, get_fingerprint(e).fp), n_buckets)]

\* the different fingerprints inserted into each cell of a dqQHTc filter, in the
\* order of their latest insert; the last n_buckets of them are kept
recent_after(e) ==
    IF variant # "dqQHTc" THEN recent
    ELSE [recent EXCEPT ![get_address(e)] =
             keep_last(Append(SelectSeq(@, LAMBDA f : f # get_fingerprint(e).fp),
                              get_fingerprint(e).fp), n_buckets)]

----------------------------------------------------------------------------
(* Actions *)

Init ==
    /\ phase = "start"
    /\ variant = "QHTc"
    /\ n_cells = 0
    /\ n_buckets = 0
    /\ fingerprint_size = 0
    /\ pow_fingerprint_size = 0
    /\ qht = with_capacity(0)
    /\ rng = 0
    /\ hash_key \in HashKeys
    /\ overflow_checks \in BOOLEAN
    /\ last = no_call
    /\ since = [x \in {} |-> 0]
    /\ safe = {}
    /\ arrived = [a \in {} |-> << >>]
    /\ recent = [a \in {} |-> << >>]

\* v::new(memory_size, buckets, fsize)
Construct(v, memory_size, buckets, fsize) ==
    /\ LET r == new(v, memory_size, buckets, fsize)
       IN  /\ phase' = IF r.ok THEN "ready" ELSE "panicked"
           /\ variant' = v
           /\ n_cells' = r.n_cells
           /\ n_buckets' = IF r.ok THEN buckets ELSE 0
           /\ fingerprint_size' = IF r.ok THEN fsize ELSE 0
           /\ pow_fingerprint_size' = r.pow
           /\ qht' = r.qht
           /\ last' = [no_call EXCEPT !.op = "new", !.args = <<memory_size, buckets, fsize>>,
                                      !.ret = r.ok]
    /\ rng' = 0
    /\ arrived' = [a \in 0 .. n_cells' - 1 |-> << >>]
    /\ recent' = [a \in 0 .. n_cells' - 1 |-> << >>]
    /\ UNCHANGED <<hash_key, overflow_checks, since, safe>>

\* a filter that is then used
New ==
    /\ phase = "start"
    /\ \E v \in Variants, memory_size \in 0 .. MaxMem, buckets \in 0 .. MaxB,
          fsize \in 0 .. FINGERPRINT_SIZE_LIMIT + 1 :
            Construct(v, memory_size, buckets, fsize)

\* a call that ends in get_fingerprint: the increment of the element's value
\* overflows, or the loop never finds a non-zero fingerprint
Fails(op, e) ==
    /\ get_fingerprint(e).kind # "ok"
    /\ phase' = IF get_fingerprint(e).kind = "panic" THEN "panicked" ELSE "hung"
    /\ last' = [no_call EXCEPT !.op = op, !.e = e]
    /\ UNCHANGED <<variant, filter_fields, hash_key, overflow_checks, since, safe,
                   arrived, recent>>

\* a lookup that stores the fingerprint it did not find in an empty bucket
Lookup_stores(e) ==
    /\ phase = "ready"
    /\ get_fingerprint(e).kind = "ok"
    /\ last' = [no_call EXCEPT !.op = "lookup", !.e = e, !.ret = lookup(e)]
    /\ qht' = IF lookup(e) THEN qht
              ELSE insert_empty(qht, get_address(e), get_fingerprint(e).fp).qht
    /\ UNCHANGED <<phase, variant, n_cells, n_buckets, fingerprint_size,
                   pow_fingerprint_size, rng, hash_key, overflow_checks,
                   since, safe, arrived, recent>>

Lookup(e) ==
    /\ phase = "ready"
    /\ \/ Fails("lookup", e)
       \/ /\ get_fingerprint(e).kind = "ok"
          /\ last' = [no_call EXCEPT !.op = "lookup", !.e = e, !.ret = lookup(e)]
          /\ UNCHANGED <<phase, variant, filter_fields, hash_key, overflow_checks,
                         since, safe, arrived, recent>>

\* the effect of an insert(e) that returned r
Inserted(e, r) ==
    /\ get_fingerprint(e).kind = "ok"
    /\ qht' = r.qht
    /\ rng' = IF r.drew THEN rng_after_draw ELSE rng
    /\ last' = insert_call(e, r)
    /\ since' = since_after(e)
    /\ safe' = safe_after(e, r)
    /\ arrived' = arrived_after(e)
    /\ recent' = recent_after(e)
    /\ UNCHANGED <<phase, variant, n_cells, n_buckets, fingerprint_size,
                   pow_fingerprint_size, hash_key, overflow_checks>>

QHT_Insert(e) ==
    /\ phase = "ready" /\ variant = "QHTc"
    /\ \/ Fails("insert", e)
       \/ \E bucket \in get_random_bucket : Inserted(e, QuotientHashTable_insert(e, bucket))

DQHT_Insert(e) ==
    /\ phase = "ready" /\ variant = "dQHTc"
    /\ \/ Fails("insert", e)
       \/ \E bucket \in get_random_bucket : Inserted(e, DQuotientHashTable_insert(e, bucket))

DQQHT_Insert(e) ==
    /\ phase = "ready" /\ variant = "dqQHTc"
    /\ \/ Fails("insert", e)
       \/ Inserted(e, DQQuotientHashTable_insert(e))

Next ==
    \/ New
    \/ \E e \in Values : Lookup(e)
    \/ \E e \in Values : QHT_Insert(e)
    \/ \E e \in Values : DQHT_Insert(e)
    \/ \E e \in Values : DQQHT_Insert(e)

Spec == Init /\ [][Next]_vars

----------------------------------------------------------------------------
(* Construction alone, over every usize value of memory_size and n_buckets *)

InitNew == Init /\ hash_key = 1

NewAny ==
    /\ phase = "start"
    /\ \E v \in Variants, memory_size \in 0 .. UsizeMax, buckets \in 0 .. UsizeMax,
          fsize \in 0 .. FINGERPRINT_SIZE_LIMIT + 1 :
            Construct(v, memory_size, buckets, fsize)

NextNew == NewAny

SpecNew == InitNew /\ [][NextNew]_vars

----------------------------------------------------------------------------
(* The fingerprint derivation over every fingerprint size: the filters      *)
(* new(fsize, 1, fsize) of one cell and one bucket, fsize = 1 .. 8, in use  *)

InitFingerprint ==
    /\ phase = "ready"
    /\ variant \in Variants
    /\ fingerprint_size \in 1 .. FINGERPRINT_SIZE_LIMIT
    /\ n_cells = 1
    /\ n_buckets = 1
    /\ pow_fingerprint_size = pow2(fingerprint_size)
    /\ qht = with_capacity(fingerprint_size)
    /\ rng = 0
    /\ hash_key \in HashKeys
    /\ overflow_checks \in BOOLEAN
    /\ last = [no_call EXCEPT !.op = "new",
                              !.args = <<fingerprint_size, 1, fingerprint_size>>,
                              !.ret = TRUE]
    /\ since = [x \in {} |-> 0]
    /\ safe = {}
    /\ arrived = [a \in {0} |-> << >>]
    /\ recent = [a \in {0} |-> << >>]
    /\ new(variant, fingerprint_size, 1, fingerprint_size) =
          [ok |-> TRUE, n_cells |-> n_cells, pow |-> pow_fingerprint_size, qht |-> qht]

NextFingerprint ==
    \/ \E e \in Values : Lookup(e)
    \/ \E e \in Values : QHT_Insert(e)
    \/ \E e \in Values : DQHT_Insert(e)
    \/ \E e \in Values : DQQHT_Insert(e)

SpecFingerprint == InitFingerprint /\ [][NextFingerprint]_vars

----------------------------------------------------------------------------
(* Properties *)

InsertReturned == phase = "ready" /\ last.op = "insert"

fp_of(e) == get_fingerprint(e).fp

\* the number of buckets of e's cell that hold e's fingerprint now
count_now(e) == cell_count(qht, get_address(e), fp_of(e))

\* C1: in every reachable state of each of the three variants, lookup(x) called
\* right after an insert(x) that returned, returns true.
C1_LookupAfterInsert ==
    InsertReturned => (get_fingerprint(last.e).kind = "ok" /\ lookup(last.e))

\* an insert into a used filter whose cell was full and did not hold the fingerprint
C1_Witness ==
    /\ InsertReturned
    /\ last.was_full /\ ~last.detected /\ last.evicted # 0
    /\ lookup(last.e)

\* C2: insert(e) returns what lookup(e) returned in the state it was called in:
\* true iff a bucket of cell address(e) held fp(e) before any write of the insert.
C2_InsertReturnsPriorLookup ==
    InsertReturned => (last.ret = last.detected)

\* an always-writing insert that found the fingerprint and changed the bit store
C2_Witness ==
    /\ InsertReturned /\ variant # "QHTc"
    /\ last.ret /\ last.detected /\ last.changed

\* C3: in QHTc and dQHTc an insert writes over a non-empty bucket only when every
\* bucket of the cell is non-empty; and an inserted x is still found as long as
\* every later insert into its cell found an empty bucket (or, in QHTc, found its
\* own fingerprint present).
C3_NoEvictionBeforeFull ==
    (phase = "ready" /\ variant \in {"QHTc", "dQHTc"}) =>
        /\ (last.op = "insert" /\ last.bucket < n_buckets /\ last.evicted # 0) => last.was_full
        /\ \A x \in safe : lookup(x)

\* x is still found after a later insert of another fingerprint filled an empty
\* bucket of its cell
C3_Witness ==
    /\ InsertReturned /\ variant \in {"QHTc", "dQHTc"}
    /\ last.changed /\ ~last.was_full
    /\ \E x \in safe :
        /\ x # last.e
        /\ get_address(x) = get_address(last.e)
        /\ fp_of(x) # fp_of(last.e)
        /\ lookup(x)

\* C4: in dqQHTc with B buckets per cell, an inserted x is found as long as at most
\* B-1 inserts have been addressed to its cell since insert(x).
C4_FoundWithinBMinusOneInserts ==
    (phase = "ready" /\ variant = "dqQHTc") =>
        \A x \in DOMAIN since : since[x] <= n_buckets - 1 => lookup(x)

\* B-1 >= 1 inserts of other fingerprints went into x's cell and x is still found
C4_Witness ==
    /\ InsertReturned /\ variant = "dqQHTc" /\ n_buckets >= 2
    /\ \E x \in DOMAIN since :
        /\ since[x] = n_buckets - 1
        /\ \A idx \in 0 .. n_buckets - 1 :
              get_fingerprint_from_bucket(qht, get_address(x), idx) # 0
        /\ cell_count(qht, get_address(x), fp_of(x)) = 1
        /\ get_fingerprint_from_bucket(qht, get_address(x), 0) = fp_of(x)
        /\ lookup(x)

\* C5: the first insert(x) on an empty filter returns false, and an insert(x) that
\* follows an insert(x) with no insert into cell address(x) in between returns true.
C5_InsertReturnSemantics ==
    InsertReturned =>
        /\ last.was_empty => ~last.ret
        /\ last.repeat => last.ret

\* a third insert of the same element in a row: the cell already holds two copies
C5_Witness ==
    /\ InsertReturned /\ variant = "dQHTc"
    /\ last.repeat /\ last.ret /\ last.count_before = 2

\* C6: on a filter on which no insert was performed, lookup(x) returns false for
\* every x, whatever lookups came before.
C6_FreshLookupFalse ==
    (phase = "ready" /\ DOMAIN since = {}) =>
        \A x \in Values : get_fingerprint(x).kind = "ok" => ~lookup(x)

\* a lookup on a filter that has seen lookups only
C6_Witness ==
    /\ phase = "ready" /\ last.op = "lookup" /\ DOMAIN since = {}
    /\ ~last.ret /\ n_buckets = 2 /\ n_cells = 2

\* C7: new(memory_size, B, F) panics if F = 0, F > 8, B = 0 or memory_size < B*F,
\* and returns a filter for every other parameter combination.
C7_ConstructionFailsIff ==
    last.op = "new" =>
        (~last.ret <=> \/ last.args[3] = 0
                      \/ last.args[3] > FINGERPRINT_SIZE_LIMIT
                      \/ last.args[2] = 0
                      \/ last.args[1] < last.args[2] * last.args[3])

\* C8: a QHTc insert(e) that finds fp(e) in its cell returns true and leaves every
\* bucket and the random number generator as they were.
C8_PresentInsertChangesNothing ==
    (InsertReturned /\ variant = "QHTc" /\ last.detected) =>
        (last.ret /\ ~last.changed /\ ~last.drew /\ last.bucket = n_buckets)

\* the fingerprint was found in a full cell of two buckets
C8_Witness ==
    /\ InsertReturned /\ variant = "QHTc"
    /\ last.detected /\ last.was_full /\ n_buckets = 2

\* C9 as stated: a dQHTc insert(e) writes fp(e) even when it is present, and then
\* the number of buckets of the cell holding fp(e) is strictly greater than before.
C9_MultiplicityStrictlyGrows ==
    (InsertReturned /\ variant = "dQHTc" /\ last.detected) =>
        (last.bucket < n_buckets /\ count_now(last.e) > last.count_before)

\* C9 amended: a dQHTc insert(e) writes fp(e) into a bucket even when it is present;
\* the number of buckets holding fp(e) is then never smaller than before, and is
\* greater by one exactly when the bucket written did not already hold fp(e).
C9_MultiplicityNeverShrinks ==
    (InsertReturned /\ variant = "dQHTc" /\ last.detected) =>
        /\ last.bucket < n_buckets
        /\ get_fingerprint_from_bucket(qht, get_address(last.e), last.bucket) = fp_of(last.e)
        /\ count_now(last.e) =
              last.count_before + (IF last.evicted = fp_of(last.e) THEN 0 ELSE 1)

\* a present fingerprint was written by a random choice over another fingerprint
C9_Witness ==
    /\ InsertReturned /\ variant = "dQHTc"
    /\ last.detected /\ last.was_full /\ last.drew
    /\ count_now(last.e) > last.count_before

\* C10: as the doc comment of DQuotientHashTable::insert says, an insert of an
\* element whose fingerprint is in its cell leaves the buckets unchanged.
C10_PresentNotInserted ==
    (InsertReturned /\ variant = "dQHTc" /\ last.detected) => ~last.changed

\* C11: in dqQHTc, after n inserts addressed to a cell with fingerprints f1..fn
\* (repetitions counted), bucket b of the cell holds f(n-B+1+b) when that index
\* is >= 1 and 0 otherwise.  arrived[a] is the sequence f(max(1,n-B+1))..fn.
C11_CellHoldsLastArrivals ==
    (phase = "ready" /\ variant = "dqQHTc") =>
        \A a \in 0 .. n_cells - 1, b \in 0 .. n_buckets - 1 :
            LET s == arrived[a]
                i == Len(s) - n_buckets + 1 + b
            IN  get_fingerprint_from_bucket(qht, a, b) = IF i >= 1 THEN s[i] ELSE 0

\* a cell of three buckets after at least four inserts, the last three of them of
\* fingerprints f, g, f: an older fingerprint is gone and f is held twice
C11_Witness ==
    /\ InsertReturned /\ variant = "dqQHTc" /\ n_buckets = 3
    /\ \E a \in 0 .. n_cells - 1 :
        /\ Len(arrived[a]) = 3
        /\ arrived[a][1] = arrived[a][3]
        /\ arrived[a][1] # arrived[a][2]
        /\ Len(recent[a]) = 3
        /\ get_fingerprint_from_bucket(qht, a, 0) = arrived[a][1]
        /\ get_fingerprint_from_bucket(qht, a, 2) = arrived[a][1]

\* no fingerprint occurs twice in the sequence s
pairwise_different(s) ==
    \A i, j \in 1 .. Len(s) : i # j => s[i] # s[j]

\* C12 as stated: in dqQHTc the B most recently inserted pairwise-different
\* fingerprints addressed to a cell are all retained in that cell.
C12_RecentDistinctRetained ==
    (phase = "ready" /\ variant = "dqQHTc") =>
        \A a \in 0 .. n_cells - 1 :
            \A i \in 1 .. Len(recent[a]) : in_cell(qht, a, recent[a][i])

\* C12 amended: in dqQHTc, when no fingerprint repeats among the last B inserts
\* into a cell, the B most recently inserted different fingerprints are the
\* contents of the cell, in arrival order, the latest in bucket B-1.
C12_RecentRetainedWithoutRepeats ==
    (phase = "ready" /\ variant = "dqQHTc") =>
        \A a \in 0 .. n_cells - 1 :
            pairwise_different(arrived[a]) =>
                \A i \in 1 .. Len(recent[a]) :
                    get_fingerprint_from_bucket(qht, a, n_buckets - Len(recent[a]) + i - 1)
                        = recent[a][i]

\* an insert of a new fingerprint into a full cell of different fingerprints: the
\* oldest one was dropped, and the cell holds the B most recent different ones
C12_Witness ==
    /\ InsertReturned /\ variant = "dqQHTc" /\ n_buckets >= 2
    /\ ~last.detected /\ last.was_full
    /\ LET a == get_address(last.e)
       IN  /\ pairwise_different(arrived[a])
           /\ Len(recent[a]) = n_buckets
           /\ recent[a][n_buckets] = fp_of(last.e)
           /\ get_fingerprint_from_bucket(qht, a, 0) = recent[a][1]

\* a step that is an insert call that returned
InsertStep == phase = "ready" /\ phase' = "ready" /\ last'.op = "insert"

\* C13: for each variant, insert(e) changes buckets only in cell address(e):
\* every bucket of every other cell holds the same value after the call as before.
C13_InsertTouchesOnlyItsCell ==
    [][InsertStep =>
          \A a \in (0 .. n_cells - 1) \ {get_address(last'.e)}, b \in 0 .. n_buckets - 1 :
              get_fingerprint_from_bucket(qht', a, b) = get_fingerprint_from_bucket(qht, a, b)]_vars

\* an insert wrote into its cell while another cell held a fingerprint
C13_Witness ==
    /\ InsertReturned /\ last.changed /\ n_buckets >= 2
    /\ \E a \in (0 .. n_cells - 1) \ {get_address(last.e)} :
           \E b \in 0 .. n_buckets - 1 : get_fingerprint_from_bucket(qht, a, b) # 0

\* C14: for each variant, lookup has no effect: every bucket, the parameters
\* n_cells, n_buckets, fingerprint_size, pow_fingerprint_size and the random
\* number generator are the same after a lookup call as before it.
C14_LookupHasNoEffect ==
    [][(phase = "ready" /\ last'.op = "lookup") => UNCHANGED filter_fields]_vars

\* a lookup that found its element on a filter whose generator has been used
C14_Witness ==
    /\ phase = "ready" /\ last.op = "lookup" /\ last.ret
    /\ rng # 0 /\ ~all_zero(qht)

\* C15: on a successfully constructed filter of any variant, lookup and insert
\* never panic, whatever the item: in particular the increment of the element's
\* value in the fingerprint loop does not overflow.
C15_OperationsNeverPanic ==
    last.op \in {"lookup", "insert"} => phase # "panicked"

\* C16: for every item and every fingerprint size F in 1 .. 8, the fingerprint
\* derivation returns a value in 1 .. 2^F - 1, and it returns the same value for
\* the same item before and after every call on the filter.
C16_FingerprintInRangeAndPure ==
    /\ [](phase = "ready" =>
            \A e \in Values :
                get_fingerprint(e).kind = "ok" =>
                    get_fingerprint(e).fp \in 1 .. pow2(fingerprint_size) - 1)
    /\ [][(phase = "ready" /\ phase' = "ready") =>
            \A e \in Values : get_fingerprint(e)' = get_fingerprint(e)]_vars

\* the first hash of the element reduced to 0, and the loop went on to a non-zero
\* fingerprint; the element is found under it after a later insert of another one
C16_Witness ==
    /\ InsertReturned /\ fingerprint_size <= 2
    /\ \E e \in Values \ {last.e} :
        /\ get_hash(e, 2) % pow_fingerprint_size = 0
        /\ get_fingerprint(e).kind = "ok"
        /\ get_fingerprint(e).fp \in 1 .. pow_fingerprint_size - 1
        /\ e \in DOMAIN since

\* C17: in every reachable state of every variant, every bucket of every cell
\* holds a value in 0 .. 2^F - 1, and every non-zero value is the fingerprint, in
\* 1 .. 2^F - 1, of an element that was inserted into that cell.
C17_BucketsHoldFingerprints ==
    phase = "ready" =>
        \A a \in 0 .. n_cells - 1, b \in 0 .. n_buckets - 1 :
            LET v == get_fingerprint_from_bucket(qht, a, b)
            IN  /\ v \in 0 .. pow2(fingerprint_size) - 1
                /\ v # 0 => \E x \in DOMAIN since :
                                /\ get_address(x) = a
                                /\ fp_of(x) = v
                                /\ v \in 1 .. pow2(fingerprint_size) - 1

\* a cell holding two different fingerprints and an empty bucket
C17_Witness ==
    /\ InsertReturned /\ fingerprint_size >= 2 /\ n_buckets = 3
    /\ \E a \in 0 .. n_cells - 1 :
        /\ get_fingerprint_from_bucket(qht, a, 0) # 0
        /\ get_fingerprint_from_bucket(qht, a, 1) # 0
        /\ get_fingerprint_from_bucket(qht, a, 0) # get_fingerprint_from_bucket(qht, a, 1)
        /\ get_fingerprint_from_bucket(qht, a, 2) = 0

\* C18: a filter built with (M, B, F) has exactly floor(M / (B*F)) cells of B
\* buckets of F bits and a bit store of exactly n_cells * B * F bits.
C18_CellsAndStoreLength ==
    (last.op = "new" /\ last.ret) =>
        /\ n_buckets = last.args[2]
        /\ fingerprint_size = last.args[3]
        /\ n_cells = last.args[1] \div (last.args[2] * last.args[3])
        /\ Cardinality(DOMAIN qht) = n_cells * n_buckets * fingerprint_size

\* C19: one dqQHTc insert(e) on cell a: after the call bucket B-1 holds fp(e) and
\* every bucket b in 0 .. B-2 holds the value bucket b+1 held before the call.
C19_InsertShiftsCellLeft ==
    [][(InsertStep /\ variant = "dqQHTc") =>
          LET a == get_address(last'.e)
          IN  /\ get_fingerprint_from_bucket(qht', a, n_buckets - 1) = get_fingerprint(last'.e).fp
              /\ \A b \in 0 .. n_buckets - 2 :
                    get_fingerprint_from_bucket(qht', a, b)
                        = get_fingerprint_from_bucket(qht, a, b + 1)]_vars

\* an insert into a full cell of three buckets that now holds three fingerprints,
\* neighbours different: the value of bucket 0 before the call is gone
C19_Witness ==
    /\ InsertReturned /\ variant = "dqQHTc" /\ n_buckets = 3 /\ last.was_full
    /\ LET a == get_address(last.e)
       IN  /\ get_fingerprint_from_bucket(qht, a, 0) # get_fingerprint_from_bucket(qht, a, 1)
           /\ get_fingerprint_from_bucket(qht, a, 1) # get_fingerprint_from_bucket(qht, a, 2)
           /\ get_fingerprint_from_bucket(qht, a, 2) = fp_of(last.e)

\* the lowest-indexed bucket of cell a that holds 0
first_empty(bits, a) ==
    CHOOSE b \in 0 .. n_buckets - 1 :
        /\ get_fingerprint_from_bucket(bits, a, b) = 0
        /\ \A c \in 0 .. b - 1 : get_fingerprint_from_bucket(bits, a, c) # 0

C22_BucketAccessInRange ==
    phase = "ready" =>
        \A e \in Values, b \in 0 .. n_buckets - 1 :
            /\ get_address(e) \in 0 .. n_cells - 1
            /\ bitstore_in_range(qht, bucket_offset(get_address(e), b), fingerprint_size)

\* C23: for every cell a, bucket b and value v < 2^F,
\* insert_fingerprint_in_bucket(a, b, v) followed by
\* get_fingerprint_from_bucket(a, b) yields v, and every other bucket reads as
\* before.
C23_BucketRoundTrip ==
    [](
      phase = "ready" =>
          \A a \in 0 .. n_cells - 1, b \in 0 .. n_buckets - 1,
             v \in 0 .. pow2(fingerprint_size) - 1 :
              LET written == insert_fingerprint_in_bucket(qht, a, b, v)
              IN  /\ get_fingerprint_from_bucket(written, a, b) = v
                  /\ \A a2 \in 0 .. n_cells - 1, b2 \in 0 .. n_buckets - 1 :
                        <<a2, b2>> # <<a, b>> =>
                            get_fingerprint_from_bucket(written, a2, b2)
                                = get_fingerprint_from_bucket(qht, a2, b2)
    )

\* a bucket holding a fingerprint is written with another non-zero value and reads
\* back that value, while a second occupied bucket keeps its own
C23_Witness ==
    /\ phase = "ready" /\ fingerprint_size >= 2
    /\ \E a \in 0 .. n_cells - 1, b \in 0 .. n_buckets - 1,
          v \in 1 .. pow2(fingerprint_size) - 1 :
        LET written == insert_fingerprint_in_bucket(qht, a, b, v)
        IN  /\ get_fingerprint_from_bucket(qht, a, b) \notin {0, v}
            /\ get_fingerprint_from_bucket(written, a, b) = v
            /\ \E a2 \in 0 .. n_cells - 1, b2 \in 0 .. n_buckets - 1 :
                  /\ <<a2, b2>> # <<a, b>>
                  /\ get_fingerprint_from_bucket(qht, a2, b2) \notin {0, v}
                  /\ get_fingerprint_from_bucket(written, a2, b2)
                        = get_fingerprint_from_bucket(qht, a2, b2)

\* C24: the fingerprint loop terminates for every item: starting from the item's
\* own value it reaches an iteration whose hash is non-zero modulo 2^F and
\* returns.  Stated for the items that have such an iteration ahead of them.
C24_FingerprintLoopReturns ==
    phase = "ready" =>
        \A e \in Values :
            (\E v \in e .. MaxValue : get_hash(v, 2) % pow_fingerprint_size # 0)
                => get_fingerprint(e).kind = "ok"

\* the fingerprint f is one of the entries of the sequence s
in_sequence(s, f) == \E i \in 1 .. Len(s) : s[i] = f

\* C25: dqQHTc is deterministic: the value every call returns and the contents of
\* every bucket after it are functions of the parameters and of the sequence of
\* calls made so far (recorded in `arrived'), and no random choice is made.
C25_DqqDeterministic ==
    [][(phase = "ready" /\ phase' = "ready" /\ variant = "dqQHTc") =>
          LET a == get_address(last'.e)
              f == get_fingerprint(last'.e).fp
          IN  /\ rng' = rng
              /\ ~last'.drew
              /\ last'.op \in {"insert", "lookup"} => last'.ret = in_sequence(arrived[a], f)
              /\ \A c \in 0 .. n_cells - 1, b \in 0 .. n_buckets - 1 :
                    LET i == Len(arrived'[c]) - n_buckets + 1 + b
                    IN  get_fingerprint_from_bucket(qht', c, b)
                            = IF i >= 1 THEN arrived'[c][i] ELSE 0]_vars

\* an insert into a full cell of a dqQHTc filter that found its fingerprint and
\* dropped another one
C25_Witness ==
    /\ InsertReturned /\ variant = "dqQHTc" /\ n_buckets >= 2
    /\ last.ret /\ last.was_full /\ rng = 0
    /\ \E i \in 1 .. Len(recent[get_address(last.e)]) :
           ~in_cell(qht, get_address(last.e), recent[get_address(last.e)][i])

\* C26: for every variant and every reachable state, lookup(x) returns true only
\* if some earlier insert was of an item with the same cell address and the same
\* fingerprint as x.
C26_LookupTrueOnlyAfterMatchingInsert ==
    phase = "ready" =>
        \A x \in Values :
            (get_fingerprint(x).kind = "ok" /\ lookup(x)) =>
                \E y \in DOMAIN since :
                    get_address(y) = get_address(x) /\ fp_of(y) = fp_of(x)

\* a false positive: the lookup of an element that was never inserted returned
\* true in a filter of several cells, after the insert of a colliding element
C26_Witness ==
    /\ phase = "ready" /\ last.op = "lookup" /\ last.ret
    /\ last.e \notin DOMAIN since
    /\ n_cells >= 2 /\ fingerprint_size >= 2

\* C27: in QHTc, in every reachable state, no cell holds the same non-zero
\* fingerprint in two different buckets.
C27_QhtNoDuplicateInCell ==
    (phase = "ready" /\ variant = "QHTc") =>
        \A a \in 0 .. n_cells - 1, b1 \in 0 .. n_buckets - 1, b2 \in 0 .. n_buckets - 1 :
            (b1 # b2 /\ get_fingerprint_from_bucket(qht, a, b1) # 0) =>
                get_fingerprint_from_bucket(qht, a, b1) # get_fingerprint_from_bucket(qht, a, b2)

\* the element was inserted twice in a row into a cell that has empty buckets
\* left, and its fingerprint is there once
C27_Witness ==
    /\ InsertReturned /\ variant = "QHTc" /\ n_buckets = 3
    /\ last.repeat /\ last.ret /\ ~last.was_full
    /\ count_now(last.e) = 1
    /\ get_fingerprint_from_bucket(qht, get_address(last.e), 1) # 0

\* the non-empty buckets of every cell are its first buckets
prefix_filled(bits) ==
    \A a \in 0 .. n_cells - 1, i \in 0 .. n_buckets - 1 :
        get_fingerprint_from_bucket(bits, a, i) # 0 =>
            \A j \in 0 .. i - 1 : get_fingerprint_from_bucket(bits, a, j) # 0

\* the number of non-empty buckets of a cell
occupied(bits, address) ==
    Cardinality({idx \in 0 .. n_buckets - 1 :
                    get_fingerprint_from_bucket(bits, address, idx) # 0})

\* C28: in QHTc and dQHTc, in every reachable state the non-empty buckets of
\* every cell form a prefix (bucket i non-zero implies every bucket j < i
\* non-zero), and no step turns a non-zero bucket back into 0, so the number of
\* occupied buckets of a cell never decreases.
C28_OccupiedBucketsFormGrowingPrefix ==
    /\ []((phase = "ready" /\ variant \in {"QHTc", "dQHTc"}) => prefix_filled(qht))
    /\ [][(phase = "ready" /\ phase' = "ready" /\ variant \in {"QHTc", "dQHTc"}) =>
            \A a \in 0 .. n_cells - 1 :
                /\ \A i \in 0 .. n_buckets - 1 :
                       get_fingerprint_from_bucket(qht, a, i) # 0 =>
                           get_fingerprint_from_bucket(qht', a, i) # 0
                /\ occupied(qht', a) >= occupied(qht, a)]_vars

\* an insert wrote the second bucket of a three-bucket cell, the third is
\* still empty
C28_Witness ==
    /\ InsertReturned /\ variant \in {"QHTc", "dQHTc"} /\ n_buckets = 3
    /\ last.bucket = 1 /\ last.changed
    /\ get_fingerprint_from_bucket(qht, get_address(last.e), 0) # 0
    /\ get_fingerprint_from_bucket(qht, get_address(last.e), 1) = fp_of(last.e)
    /\ get_fingerprint_from_bucket(qht, get_address(last.e), 2) = 0

\* C29: with one bucket per cell the three variants are observationally
\* equivalent: the same (memory_size, 1, F) constructs the same filter, and
\* from every reachable state every insert returns the same value and leaves
\* the same bucket contents in QHTc, dQHTc and dqQHTc, whatever bucket the
\* generator draws; so equal call sequences give equal returns and contents.
C29_OneBucketVariantsAgree ==
    [](
      (phase = "ready" /\ n_buckets = 1) =>
          /\ last.op = "new" =>
                 \A v \in Variants :
                     LET r == new(v, last.args[1], 1, fingerprint_size)
                     IN  r.ok /\ r.n_cells = n_cells /\ r.pow = pow_fingerprint_size
                              /\ r.qht = qht
          /\ \A e \in Values :
                 get_fingerprint(e).kind = "ok" =>
                     \A b1 \in get_random_bucket, b2 \in get_random_bucket :
                         LET q == QuotientHashTable_insert(e, b1)
                             d == DQuotientHashTable_insert(e, b2)
                             dq == DQQuotientHashTable_insert(e)
                         IN  /\ q.ret = d.ret /\ d.ret = dq.ret
                             /\ q.qht = d.qht /\ d.qht = dq.qht
                             /\ lookup_in(q.qht, e) /\ lookup_in(dq.qht, e)
    )

\* a one-bucket QHTc cell that held another fingerprint was overwritten through
\* the random draw, the path the other two variants do not take
C29_Witness ==
    /\ InsertReturned /\ variant = "QHTc" /\ n_buckets = 1 /\ n_cells >= 2
    /\ last.was_full /\ ~last.detected /\ last.drew /\ last.changed
    /\ ~last.ret

\* insert of the constructed variant, with `bucket' as the random draw
insert_of_variant(e, bucket) ==
    IF variant = "QHTc" THEN QuotientHashTable_insert(e, bucket)
    ELSE IF variant = "dQHTc" THEN DQuotientHashTable_insert(e, bucket)
    ELSE DQQuotientHashTable_insert(e)

\* two elements with the same cell address and the same fingerprint
same_address_and_fingerprint(x, y) ==
    /\ get_address(x) = get_address(y)
    /\ LET fx == get_fingerprint(x)
           fy == get_fingerprint(y)
       IN  fx.kind = "ok" /\ fy.kind = "ok" /\ fx.fp = fy.fp

\* C30: the filter depends on an item only through its cell address and its
\* fingerprint: for x and y with the same address and fingerprint, in every
\* reachable state lookup(x) = lookup(y), and insert(x) and insert(y) with the
\* same random draw return the same value and leave the same bucket contents.
C30_ItemMattersOnlyThroughAddressAndFingerprint ==
    [](
      phase = "ready" =>
          \A x \in Values, y \in Values :
              (x < y /\ same_address_and_fingerprint(x, y)) =>
                  /\ lookup(x) = lookup(y)
                  /\ \A bucket \in get_random_bucket :
                         LET of_x == insert_of_variant(x, bucket)
                             of_y == insert_of_variant(y, bucket)
                         IN  of_x.ret = of_y.ret /\ of_x.qht = of_y.qht
    )

\* an element was inserted, and a different element that was never inserted
\* has its address and its fingerprint and is found
C30_Witness ==
    /\ InsertReturned /\ n_cells >= 2 /\ fingerprint_size >= 2
    /\ \E y \in Values :
           /\ y # last.e /\ y \notin DOMAIN since
           /\ same_address_and_fingerprint(last.e, y)
           /\ lookup(y)

====
